---- MODULE Spec2Model ----
(***************************************************************************)
(* PETS: a pre-emptive round-robin time slicer for Arm Cortex-M.           *)
(*                                                                         *)
(* One CPU.  Thread mode runs either `Scheduler::start` (on the main       *)
(* stack) or the body of the task named by current_task.  Handler mode     *)
(* runs SysTick and PendSV; both have the reset priority, so neither       *)
(* pre-empts the other and each runs to completion.  A pending PendSV is   *)
(* taken before the next thread-mode instruction.                          *)
(***************************************************************************)
EXTENDS Integers, Naturals, Sequences, FiniteSets, TLC

\* ------------------------------------------------------------------ bounds
MaxTasks == 2
MaxTicks == 2
MaxDelay == 1
WrapMargin == 2
MaxPattern == 2
MaxDepth == 2
MaxRounds == 5
CadenceWindow == 30
MaxPick == 4

\* ------------------------------------------------------- program constants
\* The AtomicU32 tick counter is kept as two 16-bit limbs, hi * 2^16 + lo,
\* so that its full 32-bit width is modelled.
LimbModulus == 65536
\* usize::MAX, the "no task has run yet" value: all ones, which the handlers
\* compare against #-1
SENTINEL == -1

VARIABLES
    num_tasks,      \* task_list.len()
    prog,           \* what each task's entry function does
    current_task,   \* Scheduler.current_task
    next_task,      \* Scheduler.next_task
    parked,         \* Task.parked, per task
    ticks,          \* Scheduler.ticks
    scheduler_ptr,  \* SCHEDULER_PTR: null, or the Scheduler it points to
    syst_enabled,   \* SysTick counter and interrupt are enabled
    pendsv,         \* the PendSV exception is pending
    main_pc,        \* where fn main / Scheduler::start is
    frame_idx,      \* loop index of the frame-priming loop in start
    pc,             \* where each task is in its body
    start,          \* delay's local `start`, per task
    sel,            \* yield_until_tick's match scrutinee, per task
    panicked,       \* a panic!() was reached
    tick_count,     \* history: number of SysTick exceptions taken
    tick_from,      \* history: current_task when the last SysTick was taken
    call_tick,      \* history: tick_count when the task last called delay
    switched,       \* history: a PendSV changed current_task since the call
    yields,         \* history: yield_until_tick calls made by this delay call
    abi,            \* which PendSV handler the build links
    stack_len,      \* Stack<LEN>: LEN in bytes, the same for every task
    entry_fn,       \* Task.entry_fn, per task
    stack_mem,      \* Stack.contents as 32-bit words, per task
    task_stack,     \* Task.stack, per task: byte offset from the stack's base
    pusher,         \* StackPusher.0 of the frame being built
    push_count,     \* pushes made on the frame being built
    regs,           \* core registers r0-r12, lr, pc, xpsr
    psp,            \* process stack pointer: byte offset in the resumed stack
    frame_pc,       \* where the priming / first resume sequence is
    resumed,        \* the task the PendSV restore sequence resumes
    fpregs,         \* FPU registers s16-s31
    fpca,           \* CONTROL.FPCA: the thread has an active FPU context
    held,           \* history: what each task held when it was last suspended
    cnt,            \* history: passes of a counting task through its loop body
    wakes,          \* history: returns from delay of a counting task
    idle,           \* history: ticks taken since the task was last current
    ret             \* history: what the last call of a facade function returned

framevars == <<abi, stack_len, entry_fn, stack_mem, task_stack, pusher,
               push_count, regs, psp, frame_pc, resumed, fpregs, fpca, held>>

countvars == <<cnt, wakes, idle, ret>>

vars == <<num_tasks, prog, current_task, next_task, parked, ticks,
          scheduler_ptr, syst_enabled, pendsv, main_pc, frame_idx, pc, start,
          sel, panicked, tick_count, tick_from, call_tick, switched,
          yields, framevars, countvars>>

Tasks == 0 .. (num_tasks - 1)

NoCall == 0 - 1

\* values of SCHEDULER_PTR: null, the Scheduler that fn main starts, and
\* another Scheduler built with Scheduler::new
NullPtr == "null"

FirstScheduler == "first"

OtherScheduler == "other"

Schedulers == {FirstScheduler, OtherScheduler}

\* ----------------------------------------------------------- task programs
BusyProg == [kind |-> "busy", ticks |-> 0]

DelayProg(k) == [kind |-> "delay", ticks |-> k]

\* a task that calls start on the Scheduler inst
RestartProg(inst) == [kind |-> "restart", ticks |-> 0, target |-> inst]

\* a task that computes and keeps up to d words on its own stack
StackProg(d) == [kind |-> "busy", ticks |-> 0, depth |-> d]

\* example4's tasks: loop { defmt::info!(..); pets::delay(0) }, the passes
\* through the loop body and the returns from delay being counted
CountProg(k) == [kind |-> "delay", ticks |-> k, counts |-> TRUE]

Counts(p) == "counts" \in DOMAIN p

Programs == {BusyProg} \cup {DelayProg(k) : k \in 0 .. MaxDelay}

\* Counter values the run may be observed from: freshly constructed (0), or
\* after the counter has run to within WrapMargin of its maximum.
U32(hi, lo) == [hi |-> hi, lo |-> lo]

FromNat(k) == U32(k \div LimbModulus, k % LimbModulus)

TickPresets == {U32(0, 0), U32(LimbModulus - 1, LimbModulus - WrapMargin)}

\* ------------------------------------------------------------ Task flags
Park(pk, t) == [pk EXCEPT ![t] = TRUE]

UnparkAllButFirst(pk) == [t \in DOMAIN pk |-> t = 0 /\ pk[t]]

UnparkAll(pk) == [t \in DOMAIN pk |-> FALSE]

\* ------------------------------------------------------- pick_next_task
RECURSIVE WrapAround(_, _)
WrapAround(idx, n) == IF idx >= n THEN WrapAround(idx - n, n) ELSE idx

NewTask(id) == [kind |-> "NewTask", id |-> id]

CurrentTask == [kind |-> "CurrentTask", id |-> 0]

NoTasks == [kind |-> "NoTasks", id |-> 0]

NoSelection == [kind |-> "none", id |-> 0]

\* no facade function has been called yet
NoReturn == [fn |-> "none", now |-> U32(0, 0), id |-> 0, calls |-> 0]

PickNextTaskSkipsNone(cur, pk, n) ==
    IF cur = SENTINEL THEN NewTask(0)
    ELSE LET runnable == {i \in cur .. (cur + n) : ~pk[WrapAround(i, n)]}
         IN IF runnable = {} THEN NoTasks
            ELSE LET first == CHOOSE i \in runnable : \A j \in runnable : i <= j
                     id == WrapAround(first, n)
                 IN IF id = cur THEN CurrentTask ELSE NewTask(id)

PickNextTaskFirstIsOne(cur, pk, n) ==
    IF cur = SENTINEL THEN NewTask(WrapAround(0 + 1, n))
    ELSE LET runnable == {i \in (cur + 1) .. (cur + n) : ~pk[WrapAround(i, n)]}
         IN IF runnable = {} THEN NoTasks
            ELSE LET first == CHOOSE i \in runnable : \A j \in runnable : i <= j
                     id == WrapAround(first, n)
                 IN IF id = cur THEN CurrentTask ELSE NewTask(id)

PickNextTaskNoWrap(cur, pk, n) ==
    IF cur = SENTINEL THEN NewTask(0)
    ELSE LET runnable == {i \in (cur + 1) .. (cur + n) : ~pk[WrapAround(i, n)]}
         IN IF runnable = {} THEN NoTasks
            ELSE LET first == CHOOSE i \in runnable : \A j \in runnable : i <= j
                 IN IF first = cur THEN CurrentTask ELSE NewTask(first)

PickNextTask(cur, pk, n) ==
    IF cur = SENTINEL THEN NewTask(0)
    ELSE LET runnable == {i \in (cur + 1) .. (cur + n) : ~pk[WrapAround(i, n)]}
         IN IF runnable = {} THEN NoTasks
            ELSE LET first == CHOOSE i \in runnable : \A j \in runnable : i <= j
                     id == WrapAround(first, n)
                 IN IF id = cur THEN CurrentTask ELSE NewTask(id)

\* ------------------------------------------------------------ arithmetic
\* u32 wrapping_add(1) / fetch_add(1)
WrappingIncNoCarry(a) == U32(a.hi, (a.lo + 1) % LimbModulus)

WrappingInc(a) ==
    IF a.lo + 1 < LimbModulus
    THEN U32(a.hi, a.lo + 1)
    ELSE U32((a.hi + 1) % LimbModulus, 0)

WrappingSubSaturates(a, b) ==
    IF a.hi > b.hi \/ (a.hi = b.hi /\ a.lo >= b.lo)
    THEN LET borrow == IF a.lo < b.lo THEN 1 ELSE 0
         IN U32(a.hi - b.hi - borrow, (a.lo - b.lo + LimbModulus) % LimbModulus)
    ELSE U32(0, 0)

\* u32 wrapping_sub
WrappingSub(a, b) ==
    LET borrow == IF a.lo < b.lo THEN 1 ELSE 0
    IN U32((a.hi - b.hi - borrow + LimbModulus) % LimbModulus,
           (a.lo - b.lo + LimbModulus) % LimbModulus)

\* u32 >=
GreaterEq(a, b) == a.hi > b.hi \/ (a.hi = b.hi /\ a.lo >= b.lo)

\* ticks.fetch_add(1) (Armv7-M) and load / wrapping_add(1) / store inside
\* interrupt::free (Armv6-M)
TickIncrement(t, v6m) ==
    IF v6m
    THEN LET loaded == t IN WrappingInc(loaded)
    ELSE WrappingInc(t)

DelayDoneStrict(delta, k) == ~GreaterEq(FromNat(k), delta)

DelayDoneEarly(delta, k) == GreaterEq(WrappingInc(delta), FromNat(k))

DelayDone(delta, k) == GreaterEq(delta, FromNat(k))

\* ------------------------------------------------------ frames and stacks
Variants == {"lib", "eabi", "eabi_v6", "eabihf"}

\* Scheduler::MIN_STACK_SIZE, in bytes
MinStackSize(a) == IF a = "eabihf" THEN (4 * 49) + 8 ELSE (4 * 16) + 8

\* the two smallest LEN that Stack::new and Task::new accept
StackLens(a) == {MinStackSize(a) + 4, MinStackSize(a) + 8}

Zero == U32(0, 0)

\* Scheduler::DEFAULT_CPSR = 1 << 24
DefaultCpsr == U32(256, 0)

\* 0xFFFFFFFD: return to Thread mode, process stack, basic frame
ExcReturnThreadPsp == U32(LimbModulus - 1, LimbModulus - 3)

\* what a register or a word outside the stacks holds: anything; a value
\* that is neither zero nor an entry function stands for it
Junk == U32(57005, 48879)

\* entry functions are Thumb code addresses
EntryFns == {U32(0, 257), U32(2, 513)}

\* bit 4 of an EXC_RETURN value is clear: the frame is an extended one
Bit4Clear(w) == (w.lo \div 16) % 2 = 0

\* The pushes of one iteration of the loop in start, in program order
FrameWords(entry) ==
    <<DefaultCpsr, entry, Zero, Zero, Zero, Zero, Zero, Zero,
      ExcReturnThreadPsp,
      Zero, Zero, Zero, Zero, Zero, Zero, Zero, Zero>>

ReadWord(memi, off) ==
    IF off \div 4 \in DOMAIN memi THEN memi[off \div 4] ELSE Junk

\* PendSV from label 1, Armv7-M without FPU: ldmia r0!, {r4-r11, lr}
PendSVRestoreEabi(rg, memi, sp) ==
    [regs |-> [rg EXCEPT !.r4 = ReadWord(memi, sp),
                         !.r5 = ReadWord(memi, sp + 4),
                         !.r6 = ReadWord(memi, sp + 8),
                         !.r7 = ReadWord(memi, sp + 12),
                         !.r8 = ReadWord(memi, sp + 16),
                         !.r9 = ReadWord(memi, sp + 20),
                         !.r10 = ReadWord(memi, sp + 24),
                         !.r11 = ReadWord(memi, sp + 28),
                         !.lr = ReadWord(memi, sp + 32),
                         !.r0 = Junk, !.r1 = Junk, !.r2 = Junk, !.r3 = Junk],
     psp |-> sp + 36]

\* PendSV from label 1, Armv7-M with FPU: as above, then vldmiaeq r0!,
\* {s16-s31} when bit 4 of the popped lr is clear
PendSVRestoreEabihf(rg, memi, sp) ==
    LET core == PendSVRestoreEabi(rg, memi, sp)
    IN [regs |-> core.regs,
        psp |-> IF Bit4Clear(core.regs.lr) THEN core.psp + 64 ELSE core.psp]

\* PendSV from label 1, Armv6-M: pop {r4-r7} into r8-r11, pop {r4-r7},
\* pop {r0} into lr
PendSVRestoreEabiV6(rg, memi, sp) ==
    [regs |-> [rg EXCEPT !.r8 = ReadWord(memi, sp),
                         !.r9 = ReadWord(memi, sp + 4),
                         !.r10 = ReadWord(memi, sp + 8),
                         !.r11 = ReadWord(memi, sp + 12),
                         !.r4 = ReadWord(memi, sp + 16),
                         !.r5 = ReadWord(memi, sp + 20),
                         !.r6 = ReadWord(memi, sp + 24),
                         !.r7 = ReadWord(memi, sp + 28),
                         !.lr = ReadWord(memi, sp + 32),
                         !.r0 = Junk, !.r1 = Junk, !.r2 = Junk, !.r3 = Junk,
                         !.r12 = Junk],
     psp |-> sp + 36]

\* PendSV from label 1, the handler in lib.rs: ldmia r0!, {r4-r11};
\* mov lr, #0xFFFFFFFD
PendSVRestoreLib(rg, memi, sp) ==
    [regs |-> [rg EXCEPT !.r4 = ReadWord(memi, sp),
                         !.r5 = ReadWord(memi, sp + 4),
                         !.r6 = ReadWord(memi, sp + 8),
                         !.r7 = ReadWord(memi, sp + 12),
                         !.r8 = ReadWord(memi, sp + 16),
                         !.r9 = ReadWord(memi, sp + 20),
                         !.r10 = ReadWord(memi, sp + 24),
                         !.r11 = ReadWord(memi, sp + 28),
                         !.lr = ExcReturnThreadPsp,
                         !.r0 = Junk, !.r1 = Junk, !.r2 = Junk, !.r3 = Junk],
     psp |-> sp + 32]

PendSVRestore(a, rg, memi, sp) ==
    CASE a = "lib" -> PendSVRestoreLib(rg, memi, sp)
      [] a = "eabi" -> PendSVRestoreEabi(rg, memi, sp)
      [] a = "eabi_v6" -> PendSVRestoreEabiV6(rg, memi, sp)
      [] a = "eabihf" -> PendSVRestoreEabihf(rg, memi, sp)

\* bit 9 of a stacked xPSR: the hardware inserted a word on exception entry
\* to align the frame on 8 bytes
Bit9(w) == (w.lo \div 512) % 2 = 1

SetBit9(w) == IF Bit9(w) THEN w ELSE U32(w.hi, w.lo + 512)

ClearBit9(w) == IF Bit9(w) THEN U32(w.hi, w.lo - 512) ELSE w

\* bit 24 of xPSR: Thumb state
ThumbBit(w) == (w.hi \div 256) % 2 = 1

\* 0xFFFFFFED: return to Thread mode, process stack, extended frame
ExcReturnThreadPspFp == U32(LimbModulus - 1, LimbModulus - 19)

\* 0xFFFFFFF9: return to Thread mode, main stack
ExcReturnThreadMsp == U32(LimbModulus - 1, LimbModulus - 7)

\* a store to the stack of one task; a store outside the buffer lands in
\* memory that is not the task's stack
WriteWords(memi, off, ws) ==
    [k \in DOMAIN memi |->
        IF (k - (off \div 4)) + 1 \in 1 .. Len(ws)
        THEN ws[(k - (off \div 4)) + 1]
        ELSE memi[k]]

\* bx lr with an EXC_RETURN value: the hardware pops r0-r3, r12, lr, pc and
\* xPSR from the process stack (an extended frame also holds s0-s15, FPSCR
\* and a reserved word), and the alignment word if the stacked xPSR says so
HardwareUnstack(rg, memi, sp) ==
    [regs |-> [rg EXCEPT !.r0 = ReadWord(memi, sp),
                         !.r1 = ReadWord(memi, sp + 4),
                         !.r2 = ReadWord(memi, sp + 8),
                         !.r3 = ReadWord(memi, sp + 12),
                         !.r12 = ReadWord(memi, sp + 16),
                         !.lr = ReadWord(memi, sp + 20),
                         !.pc = ReadWord(memi, sp + 24),
                         !.xpsr = ClearBit9(ReadWord(memi, sp + 28))],
     psp |-> (IF Bit4Clear(rg.lr) THEN sp + 32 + 72 ELSE sp + 32)
             + (IF Bit9(ReadWord(memi, sp + 28)) THEN 4 ELSE 0)]

\* exception entry from a task: the hardware aligns the process stack on 8
\* bytes, pushes xPSR, pc, lr, r12, r3-r0 (below s0-s15, FPSCR and a reserved
\* word when the FPU context is active) and loads lr with EXC_RETURN
ExceptionEntry(rg, memi, sp, fp) ==
    LET pad == IF sp % 8 = 0 THEN 0 ELSE 4
        size == IF fp THEN 32 + 72 ELSE 32
        sp2 == (sp - pad) - size
        xpsr == IF pad = 4 THEN SetBit9(rg.xpsr) ELSE rg.xpsr
    IN [regs |-> [rg EXCEPT !.lr = IF fp THEN ExcReturnThreadPspFp
                                    ELSE ExcReturnThreadPsp],
        mem |-> WriteWords(memi, sp2, <<rg.r0, rg.r1, rg.r2, rg.r3, rg.r12,
                                        rg.lr, rg.pc, xpsr>>),
        psp |-> sp2]

FpRegNames == 16 .. 31

\* PendSV up to label 1, Armv7-M without FPU: stmdb r0!, {r4-r11, lr}
PendSVSaveEabi(rg, fpr, memi, sp) ==
    [mem |-> WriteWords(memi, sp - 36,
                        <<rg.r4, rg.r5, rg.r6, rg.r7, rg.r8, rg.r9, rg.r10,
                          rg.r11, rg.lr>>),
     sp |-> sp - 36]

\* PendSV up to label 1, Armv7-M with FPU: vstmdbeq r0!, {s16-s31} when bit
\* 4 of lr is clear, then stmdb r0!, {r4-r11, lr}
PendSVSaveEabihf(rg, fpr, memi, sp) ==
    LET sp1 == IF Bit4Clear(rg.lr) THEN sp - 64 ELSE sp
        mem1 == IF Bit4Clear(rg.lr)
                THEN WriteWords(memi, sp1, [i \in 1 .. 16 |-> fpr[i + 15]])
                ELSE memi
    IN PendSVSaveEabi(rg, fpr, mem1, sp1)

PendSVSaveEabiV6Unmirrored(rg, fpr, memi, sp) ==
    [mem |-> WriteWords(memi, sp - 36,
                        <<rg.r4, rg.r5, rg.r6, rg.r7, rg.r8, rg.r9, rg.r10,
                          rg.r11, rg.lr>>),
     sp |-> sp - 36]

\* PendSV up to label 1, Armv6-M: push {lr}; push {r4-r7}; r8-r11 moved
\* into r4-r7; push {r4-r7}
PendSVSaveEabiV6(rg, fpr, memi, sp) ==
    [mem |-> WriteWords(memi, sp - 36,
                        <<rg.r8, rg.r9, rg.r10, rg.r11, rg.r4, rg.r5, rg.r6,
                          rg.r7, rg.lr>>),
     sp |-> sp - 36]

\* PendSV up to label 1, the handler in lib.rs: stmdb r0!, {r4-r11}
PendSVSaveLib(rg, fpr, memi, sp) ==
    [mem |-> WriteWords(memi, sp - 32,
                        <<rg.r4, rg.r5, rg.r6, rg.r7, rg.r8, rg.r9, rg.r10,
                          rg.r11>>),
     sp |-> sp - 32]

PendSVSave(a, rg, fpr, memi, sp) ==
    CASE a = "lib" -> PendSVSaveLib(rg, fpr, memi, sp)
      [] a = "eabi" -> PendSVSaveEabi(rg, fpr, memi, sp)
      [] a = "eabi_v6" -> PendSVSaveEabiV6(rg, fpr, memi, sp)
      [] a = "eabihf" -> PendSVSaveEabihf(rg, fpr, memi, sp)

PendSVRestoreFpNever(a, fpr, memi, sp) == fpr

\* vldmiaeq r0!, {s16-s31} of the FPU handler: the registers s16-s31 after
\* the restore sequence that starts at sp
PendSVRestoreFp(a, fpr, memi, sp) ==
    IF a = "eabihf" /\ Bit4Clear(ReadWord(memi, sp + 32))
    THEN [i \in FpRegNames |-> ReadWord(memi, sp + 36 + (4 * (i - 16)))]
    ELSE fpr

RegNames ==
    {"r0", "r1", "r2", "r3", "r4", "r5", "r6", "r7", "r8", "r9", "r10",
     "r11", "r12", "lr", "pc", "xpsr"}

\* the task has not been suspended yet
NotHeld ==
    [valid |-> FALSE, regs |-> [r \in RegNames |-> Junk], exc |-> Junk,
     s |-> [i \in FpRegNames |-> Junk], fp |-> FALSE, psp |-> 0]

\* ----------------------------------------------------------------- Init
\* Scheduler::new and Task::new over n tasks
SchedulerNew(n) ==
    /\ num_tasks = n
    /\ current_task = SENTINEL
    /\ next_task = 0
    /\ parked = [t \in 0 .. (n - 1) |-> FALSE]
    /\ scheduler_ptr = NullPtr
    /\ syst_enabled = FALSE
    /\ pendsv = FALSE
    /\ main_pc = "s_check"
    /\ frame_idx = 0
    /\ pc = [t \in 0 .. (n - 1) |-> "body"]
    /\ start = [t \in 0 .. (n - 1) |-> U32(0, 0)]
    /\ sel = [t \in 0 .. (n - 1) |-> NoSelection]
    /\ panicked = FALSE
    /\ tick_count = 0
    /\ tick_from = SENTINEL
    /\ call_tick = [t \in 0 .. (n - 1) |-> NoCall]
    /\ switched = [t \in 0 .. (n - 1) |-> FALSE]
    /\ yields = [t \in 0 .. (n - 1) |-> 0]
    /\ cnt = [t \in 0 .. (n - 1) |-> 0]
    /\ wakes = [t \in 0 .. (n - 1) |-> 0]
    /\ idle = [t \in 0 .. (n - 1) |-> NoCall]
    /\ ret = NoReturn

\* Stack::new (zeroed contents) and Task::new (stack = top) for n tasks of
\* the build a, with stacks of len bytes
StacksNew(n, a, len, entries) ==
    /\ abi = a
    /\ stack_len = len
    /\ entry_fn = entries
    /\ stack_mem = [t \in 0 .. (n - 1) |->
                      [w \in 0 .. ((len \div 4) - 1) |-> Zero]]
    /\ task_stack = [t \in 0 .. (n - 1) |-> len]
    /\ pusher = 0
    /\ push_count = 0
    /\ regs = [r \in RegNames |-> Junk]
    /\ psp = 0
    /\ frame_pc = "loop"
    /\ resumed = 0
    /\ fpregs = [i \in FpRegNames |-> Junk]
    /\ fpca = FALSE
    /\ held = [t \in 0 .. (n - 1) |-> NotHeld]

Init ==
    /\ \E n \in 1 .. MaxTasks : SchedulerNew(n)
    /\ prog \in [0 .. (num_tasks - 1) -> Programs]
    /\ ticks \in TickPresets
    /\ StacksNew(num_tasks, "eabi", MinStackSize("eabi") + 4,
                 [t \in 0 .. (num_tasks - 1) |-> U32(0, 257)])

schedvars == <<current_task, next_task, parked, ticks>>

histvars == <<tick_count, tick_from, call_tick, switched, yields>>

taskvars == <<pc, start, sel>>

\* Thread mode can execute: nothing is pending and the CPU has not stopped.
ThreadRuns == ~panicked /\ ~pendsv

MainRuns == ThreadRuns /\ current_task = SENTINEL

\* ---------------------------------------------------- Scheduler::start
StartRefusesNever(cur) == FALSE

\* if self.current_task.load() != usize::MAX { panic!() }
StartRefuses(cur) == cur # SENTINEL

PublishedPointerNull(inst) == NullPtr

\* self as *const Scheduler as *mut Scheduler
PublishedPointer(inst) == inst

StartCheck ==
    /\ MainRuns /\ main_pc = "s_check"
    /\ IF StartRefuses(current_task)
       THEN panicked' = TRUE /\ main_pc' = main_pc
       ELSE panicked' = panicked /\ main_pc' = "s_publish"
    /\ UNCHANGED <<countvars, framevars, num_tasks, prog, schedvars, scheduler_ptr, syst_enabled,
                   pendsv, frame_idx, taskvars, histvars>>

StartPublish ==
    /\ MainRuns /\ main_pc = "s_publish"
    /\ scheduler_ptr' = PublishedPointer(FirstScheduler)
    /\ main_pc' = "s_syst"
    /\ UNCHANGED <<countvars, framevars, num_tasks, prog, schedvars, syst_enabled, pendsv,
                   frame_idx, taskvars, panicked, histvars>>

StartSysTick ==
    /\ MainRuns /\ main_pc = "s_syst"
    /\ syst_enabled' = TRUE
    /\ main_pc' = "s_frames"
    /\ UNCHANGED <<countvars, framevars, num_tasks, prog, schedvars, scheduler_ptr, pendsv,
                   frame_idx, taskvars, panicked, histvars>>

StartFrame ==
    /\ MainRuns /\ main_pc = "s_frames"
    /\ IF frame_idx < num_tasks
       THEN frame_idx' = frame_idx + 1 /\ main_pc' = main_pc
       ELSE frame_idx' = frame_idx /\ main_pc' = "s_pend"
    /\ UNCHANGED <<countvars, framevars, num_tasks, prog, schedvars, scheduler_ptr, syst_enabled,
                   pendsv, taskvars, panicked, histvars>>

StartPend ==
    /\ MainRuns /\ main_pc = "s_pend"
    /\ pendsv' = TRUE
    /\ main_pc' = "s_isb"
    /\ UNCHANGED <<countvars, framevars, num_tasks, prog, schedvars, scheduler_ptr, syst_enabled,
                   frame_idx, taskvars, panicked, histvars>>

\* ------------------------------------------------------------- SysTick
SysTickWithin(limit) ==
    /\ ~panicked /\ syst_enabled /\ ~pendsv
    /\ tick_count < limit
    /\ IF scheduler_ptr = NullPtr
       THEN /\ panicked' = TRUE
            /\ UNCHANGED <<schedvars, pendsv, pc>>
       ELSE /\ panicked' = panicked
            /\ parked' = UnparkAll(parked)
            /\ \E v6m \in BOOLEAN : ticks' = TickIncrement(ticks, v6m)
            /\ LET picked == PickNextTask(current_task, parked', num_tasks)
               IN IF picked.kind = "NewTask"
                  THEN next_task' = picked.id /\ pendsv' = TRUE
                  ELSE next_task' = next_task /\ pendsv' = pendsv
            /\ current_task' = current_task
            \* the interrupt ends a wait-for-interrupt of the running task
            /\ pc' = [t \in Tasks |->
                        IF t = current_task /\ pc[t] = "y_sleep"
                        THEN "d_check" ELSE pc[t]]
    /\ tick_count' = tick_count + 1
    /\ idle' = [t \in Tasks |->
                  IF idle[t] = NoCall THEN NoCall
                  ELSE IF t = current_task THEN 0 ELSE idle[t] + 1]
    /\ tick_from' = current_task
    /\ UNCHANGED <<cnt, wakes, ret, framevars, num_tasks, prog, scheduler_ptr, syst_enabled, main_pc,
                   frame_idx, start, sel, call_tick, switched, yields>>

SysTick == SysTickWithin(MaxTicks)

\* -------------------------------------------------------------- PendSV
PendSVPromoteOffByOne(next) == next + 1

\* ldr r2, [r1, next_task_offset]; str r2, [r1, current_task_offset]
PendSVPromote(next) == next

PendSV ==
    /\ ~panicked /\ pendsv
    /\ current_task' = PendSVPromote(next_task)
    /\ pendsv' = FALSE
    /\ idle' = [t \in Tasks |->
                  IF idle[t] # NoCall /\ t = current_task' THEN 0 ELSE idle[t]]
    /\ main_pc' = IF current_task = SENTINEL THEN "abandoned" ELSE main_pc
    /\ switched' = [t \in Tasks |->
                      switched[t] \/ current_task' # current_task]
    /\ UNCHANGED <<cnt, wakes, ret, framevars, num_tasks, prog, next_task, parked, ticks, scheduler_ptr,
                   syst_enabled, frame_idx, taskvars, panicked, tick_count,
                   tick_from, call_tick, yields>>

\* ------------------------------------------------------- task bodies
Running(t) == ThreadRuns /\ current_task = t

BusyStep(t) ==
    /\ Running(t) /\ prog[t].kind = "busy" /\ pc[t] = "body"
    /\ UNCHANGED vars

\* the task's own instruction, then the call of delay: start = now()
DelayCall(t) ==
    /\ Running(t) /\ prog[t].kind = "delay" /\ pc[t] = "body"
    /\ IF scheduler_ptr = NullPtr
       THEN panicked' = TRUE
            /\ UNCHANGED <<pc, start, call_tick, switched, yields, cnt>>
       ELSE /\ panicked' = panicked
            /\ cnt' = IF Counts(prog[t]) THEN [cnt EXCEPT ![t] = @ + 1] ELSE cnt
            /\ start' = [start EXCEPT ![t] = ticks]
            /\ pc' = [pc EXCEPT ![t] = "y_park"]
            /\ call_tick' = [call_tick EXCEPT ![t] = tick_count]
            /\ switched' = [switched EXCEPT ![t] = FALSE]
            /\ yields' = [yields EXCEPT ![t] = 0]
    /\ UNCHANGED <<wakes, idle, ret, framevars, num_tasks, prog, schedvars, scheduler_ptr, syst_enabled,
                   pendsv, main_pc, frame_idx, sel, tick_count,
                   tick_from>>

\* yield_until_tick: task_id = current_task.load(); task_list[task_id].park()
YieldPark(t) ==
    /\ Running(t) /\ pc[t] = "y_park"
    /\ LET id == current_task
       IN parked' = Park(parked, id)
    /\ yields' = [yields EXCEPT ![t] = @ + 1]
    /\ pc' = [pc EXCEPT ![t] = "y_pick"]
    /\ UNCHANGED <<countvars, framevars, num_tasks, prog, current_task, next_task, ticks,
                   scheduler_ptr, syst_enabled, pendsv, main_pc, frame_idx,
                   start, sel, panicked, tick_count, tick_from, call_tick,
                   switched>>

YieldPick(t) ==
    /\ Running(t) /\ pc[t] = "y_pick"
    /\ LET picked == PickNextTask(current_task, parked, num_tasks)
       IN /\ sel' = [sel EXCEPT ![t] = picked]
          /\ panicked' = (picked.kind = "CurrentTask")
          /\ pc' = [pc EXCEPT ![t] =
                      CASE picked.kind = "NewTask" -> "y_store"
                        [] picked.kind = "NoTasks" -> "y_wfi"
                        [] OTHER -> "panic"]
    /\ UNCHANGED <<countvars, framevars, num_tasks, prog, schedvars, scheduler_ptr, syst_enabled,
                   pendsv, main_pc, frame_idx, start, histvars>>

YieldStore(t) ==
    /\ Running(t) /\ pc[t] = "y_store"
    /\ next_task' = sel[t].id
    /\ sel' = [sel EXCEPT ![t] = NoSelection]
    /\ pc' = [pc EXCEPT ![t] = "y_pend"]
    /\ UNCHANGED <<countvars, framevars, num_tasks, prog, current_task, parked, ticks,
                   scheduler_ptr, syst_enabled, pendsv, main_pc, frame_idx,
                   start, panicked, histvars>>

YieldPend(t) ==
    /\ Running(t) /\ pc[t] = "y_pend"
    /\ pendsv' = TRUE
    /\ pc' = [pc EXCEPT ![t] = "d_check"]
    /\ UNCHANGED <<countvars, framevars, num_tasks, prog, schedvars, scheduler_ptr, syst_enabled,
                   main_pc, frame_idx, start, sel, panicked,
                   histvars>>

\* wfi: the CPU stops until the next interrupt
YieldWfi(t) ==
    /\ Running(t) /\ pc[t] = "y_wfi"
    /\ pc' = [pc EXCEPT ![t] = "y_sleep"]
    /\ sel' = [sel EXCEPT ![t] = NoSelection]
    /\ UNCHANGED <<countvars, framevars, num_tasks, prog, schedvars, scheduler_ptr, syst_enabled,
                   pendsv, main_pc, frame_idx, start, panicked, histvars>>

\* delay: delta = now().wrapping_sub(start); break when delta >= ticks.
\* On return the locals of the call go out of scope.
DelayCheck(t) ==
    /\ Running(t) /\ pc[t] = "d_check"
    /\ LET delta == WrappingSub(ticks, start[t])
       IN IF DelayDone(delta, prog[t].ticks)
          THEN /\ pc' = [pc EXCEPT ![t] = "body"]
               /\ start' = [start EXCEPT ![t] = U32(0, 0)]
               /\ call_tick' = [call_tick EXCEPT ![t] = NoCall]
               /\ switched' = [switched EXCEPT ![t] = FALSE]
               /\ yields' = [yields EXCEPT ![t] = 0]
               /\ wakes' = IF Counts(prog[t])
                           THEN [wakes EXCEPT ![t] = @ + 1] ELSE wakes
          ELSE /\ pc' = [pc EXCEPT ![t] = "y_park"]
               /\ UNCHANGED <<start, call_tick, switched, yields, wakes>>
    /\ UNCHANGED <<cnt, idle, ret, framevars, num_tasks, prog, schedvars, scheduler_ptr, syst_enabled,
                   pendsv, main_pc, frame_idx, sel, panicked, tick_count,
                   tick_from>>

TaskStep(t) ==
    \/ BusyStep(t)
    \/ DelayCall(t)
    \/ YieldPark(t)
    \/ YieldPick(t)
    \/ YieldStore(t)
    \/ YieldPend(t)
    \/ YieldWfi(t)
    \/ DelayCheck(t)

Next ==
    \/ StartCheck
    \/ StartPublish
    \/ StartSysTick
    \/ StartFrame
    \/ StartPend
    \/ SysTick
    \/ PendSV
    \/ \E t \in Tasks : TaskStep(t)

Spec == Init /\ [][Next]_vars

\* ====================================================================
\* The frame priming loop of start, word by word, and the first resume
\* of a task: PendSV from label 1, then the exception return.
\* ====================================================================
coldvars == <<cnt, wakes, idle, ret, prog, current_task, next_task, parked, ticks, scheduler_ptr,
              syst_enabled, pendsv, main_pc, pc, start, sel, panicked,
              tick_count, tick_from, call_tick, switched, yields>>

fpvars == <<fpregs, fpca, held>>

\* let old_stack_top = task.stack(); StackPusher::new(old_stack_top)
StartPusherNew ==
    /\ ~pendsv /\ frame_pc = "loop" /\ frame_idx < num_tasks
    /\ pusher' = task_stack[frame_idx]
    /\ push_count' = 0
    /\ frame_pc' = "push"
    /\ UNCHANGED <<coldvars, num_tasks, frame_idx, abi, stack_len, entry_fn,
                   stack_mem, task_stack, regs, psp, resumed, fpvars>>

\* StackPusher::push: pre-decrement, then write
StartPush ==
    /\ ~pendsv /\ frame_pc = "push"
    /\ push_count < Len(FrameWords(entry_fn[frame_idx]))
    /\ pusher' = pusher - 4
    /\ stack_mem' = [stack_mem EXCEPT ![frame_idx][pusher' \div 4] =
                        FrameWords(entry_fn[frame_idx])[push_count + 1]]
    /\ push_count' = push_count + 1
    /\ UNCHANGED <<coldvars, num_tasks, frame_idx, abi, stack_len, entry_fn,
                   task_stack, regs, psp, frame_pc, resumed, fpvars>>

\* task.set_stack(stack_pusher.current())
StartSetStack ==
    /\ ~pendsv /\ frame_pc = "push"
    /\ push_count = Len(FrameWords(entry_fn[frame_idx]))
    /\ task_stack' = [task_stack EXCEPT ![frame_idx] = pusher]
    /\ frame_idx' = frame_idx + 1
    /\ frame_pc' = "loop"
    /\ UNCHANGED <<coldvars, num_tasks, abi, stack_len, entry_fn, stack_mem,
                   pusher, push_count, regs, psp, resumed, fpvars>>

\* the PendSV that resumes task i for the first time, from label 1
FirstResume ==
    /\ frame_pc = "loop" /\ frame_idx = num_tasks
    /\ \E i \in Tasks :
          LET r == PendSVRestore(abi, regs, stack_mem[i], task_stack[i])
          IN /\ regs' = r.regs
             /\ psp' = r.psp
             /\ resumed' = i
    /\ frame_pc' = "bx_lr"
    /\ UNCHANGED <<coldvars, num_tasks, frame_idx, abi, stack_len, entry_fn,
                   stack_mem, task_stack, pusher, push_count, fpvars>>

\* bx lr: exception return into the task
ExceptionReturn ==
    /\ frame_pc = "bx_lr"
    /\ LET r == HardwareUnstack(regs, stack_mem[resumed], psp)
       IN /\ regs' = r.regs
          /\ psp' = r.psp
    /\ frame_pc' = "task"
    /\ fpca' = Bit4Clear(regs.lr)
    /\ UNCHANGED <<coldvars, num_tasks, frame_idx, abi, stack_len, entry_fn,
                   stack_mem, task_stack, pusher, push_count, resumed,
                   fpregs, held>>

InitFrame ==
    /\ \E n \in 1 .. MaxTasks : SchedulerNew(n)
    /\ prog = [t \in 0 .. (num_tasks - 1) |-> BusyProg]
    /\ ticks = U32(0, 0)
    /\ \E a \in Variants, entries \in [0 .. (num_tasks - 1) -> EntryFns] :
          \E len \in StackLens(a) : StacksNew(num_tasks, a, len, entries)

NextFrame ==
    \/ StartPusherNew
    \/ StartPush
    \/ StartSetStack
    \/ FirstResume
    \/ ExceptionReturn

SpecFrame == InitFrame /\ [][NextFrame]_vars

\* ====================================================================
\* Context switches, register by register: start primes the frames with
\* the SysTick interrupt already enabled, then tasks run and are switched
\* by PendSV.
\* ====================================================================
RegIndex ==
    [r0 |-> 0, r1 |-> 1, r2 |-> 2, r3 |-> 3, r4 |-> 4, r5 |-> 5, r6 |-> 6,
     r7 |-> 7, r8 |-> 8, r9 |-> 9, r10 |-> 10, r11 |-> 11, r12 |-> 12,
     lr |-> 14, pc |-> 15, xpsr |-> 16]

\* the entry function of task t
TaskEntry(t) == U32(2 * t, 257 + (256 * t))

\* addresses inside the code of task t
CodeOf(t) ==
    {U32(entry_fn[t].hi, entry_fn[t].lo + (2 * k)) : k \in 0 .. MaxPattern}

\* what task t computes into its registers: every register gets its own
\* value, pc stays inside the task's code
TaskRegs(t, v) ==
    [r \in RegNames |->
        CASE r = "pc" -> U32(entry_fn[t].hi, entry_fn[t].lo + (2 * v))
          [] r = "xpsr" -> DefaultCpsr
          [] OTHER -> U32(v, RegIndex[r])]

TaskFpRegs(t, v) == [i \in FpRegNames |-> U32(v, i)]

\* the thread was entered with an xPSR or a pc that is not the task's: the
\* first instruction faults and the fault handler does not return
Faulting ==
    /\ frame_pc = "task"
    /\ (~ThumbBit(regs.xpsr) \/ regs.pc \notin CodeOf(current_task))

\* the running task executes: it computes into its registers, pushes and
\* pops on its own stack, leaving d words in use (as many as its program
\* ever uses, at most), and, on the FPU build, may use the FPU.  What the task itself keeps on its stack is not followed:
\* its stack reads as zero after it has run.
TaskRun(t) ==
    /\ ~pendsv /\ frame_pc = "task" /\ current_task = t /\ ~Faulting
    /\ \E v \in 1 .. MaxPattern, d \in 0 .. prog[t].depth, fp \in BOOLEAN :
          /\ fp => abi = "eabihf"
          /\ regs' = TaskRegs(t, v)
          /\ psp' = stack_len - (4 * d)
          /\ fpca' = (fpca \/ fp)
          /\ fpregs' = IF fpca' THEN TaskFpRegs(t, v) ELSE fpregs
    /\ stack_mem' = [stack_mem EXCEPT ![t] = [w \in DOMAIN @ |-> Zero]]
    /\ UNCHANGED <<cnt, wakes, idle, ret, prog, current_task, next_task, parked, ticks,
                   scheduler_ptr, syst_enabled, pendsv, main_pc, pc, start,
                   sel, panicked, histvars, num_tasks, frame_idx, abi,
                   stack_len, entry_fn, task_stack, pusher,
                   push_count, frame_pc, resumed, held>>

\* the tasks a switch can be requested to: sched_tick or yield_until_tick
\* stores next_task and sets PendSV pending.  While no task has run the tick
\* selects task 0, as start's own set_pendsv finds it; a single task is never
\* switched again; among several, a request can name any task, the running
\* one included (a yield that was pre-empted before its set_pendsv).
SwitchRequest ==
    IF current_task = SENTINEL
    THEN {PickNextTask(current_task, parked, num_tasks).id}
    ELSE {i \in Tasks : num_tasks > 1}

\* a request and the PendSV exception it raises, up to the handler's bx lr:
\* exception entry on the running task's stack, the save of the running
\* task (skipped on the first switch), the restore of next_task, the copy
\* of next_task to current_task
PendSVSwitch ==
    /\ ~pendsv /\ frame_pc \in {"loop", "push", "task"} /\ ~Faulting
    /\ \E nxt \in SwitchRequest :
        LET cur == current_task
            first == cur = SENTINEL
            entry == IF first
                     THEN [regs |-> [regs EXCEPT !.lr = ExcReturnThreadMsp],
                           mem |-> <<>>, psp |-> psp]
                     ELSE ExceptionEntry(regs, stack_mem[cur], psp, fpca)
            saved == PendSVSave(abi, entry.regs, fpregs, entry.mem, entry.psp)
            mem1 == IF first THEN stack_mem
                    ELSE [stack_mem EXCEPT ![cur] = saved.mem]
            ts1 == IF first THEN task_stack
                   ELSE [task_stack EXCEPT ![cur] = saved.sp]
            r == PendSVRestore(abi, entry.regs, mem1[nxt], ts1[nxt])
        IN /\ next_task' = nxt
           /\ stack_mem' = mem1
           /\ task_stack' = ts1
           /\ regs' = r.regs
           /\ psp' = r.psp
           /\ fpregs' = PendSVRestoreFp(abi, fpregs, mem1[nxt], ts1[nxt])
           /\ held' = IF first THEN held
                      ELSE [held EXCEPT ![cur] =
                              [valid |-> TRUE, regs |-> regs,
                               exc |-> entry.regs.lr,
                               s |-> IF fpca THEN fpregs ELSE NotHeld.s,
                               fp |-> fpca, psp |-> psp]]
           /\ current_task' = PendSVPromote(nxt)
           /\ resumed' = nxt
    /\ fpca' = FALSE
    /\ frame_pc' = "bx_lr"
    /\ UNCHANGED <<cnt, wakes, idle, ret, prog, parked, ticks, scheduler_ptr, pendsv,
                   syst_enabled, main_pc, pc, start, sel, panicked, histvars,
                   num_tasks, frame_idx, abi, stack_len, entry_fn, pusher,
                   push_count>>

\* tasks that keep nothing on their own stacks when they are pre-empted
InitSwitch ==
    /\ \E n \in 1 .. MaxTasks : SchedulerNew(n)
    /\ prog = [t \in 0 .. (num_tasks - 1) |-> StackProg(0)]
    /\ ticks = U32(0, 0)
    /\ \E a \in Variants :
          \E len \in StackLens(a) :
             StacksNew(num_tasks, a, len,
                       [t \in 0 .. (num_tasks - 1) |-> TaskEntry(t)])

\* tasks that use their stacks
InitDeep ==
    /\ \E n \in 1 .. MaxTasks : SchedulerNew(n)
    /\ prog \in [0 .. (num_tasks - 1) -> {StackProg(d) : d \in 0 .. MaxDepth}]
    /\ ticks = U32(0, 0)
    /\ \E a \in Variants :
          \E len \in StackLens(a) :
             StacksNew(num_tasks, a, len,
                       [t \in 0 .. (num_tasks - 1) |-> TaskEntry(t)])

NextSwitch ==
    \/ StartPusherNew
    \/ StartPush
    \/ StartSetStack
    \/ PendSVSwitch
    \/ ExceptionReturn
    \/ \E t \in Tasks : TaskRun(t)

SpecSwitch == InitSwitch /\ [][NextSwitch]_vars

SpecDeep == InitDeep /\ [][NextSwitch]_vars

\* ====================================================================
\* start called again, from a task, once the scheduler runs: on the
\* Scheduler that runs, or on another one.
\* ====================================================================
\* current_task of a Scheduler: the other one was never started
CurrentTaskOf(inst) ==
    IF inst = FirstScheduler THEN current_task ELSE SENTINEL

\* start, called by task t: the check of current_task
RestartCheck(t) ==
    /\ Running(t) /\ prog[t].kind = "restart" /\ pc[t] = "body"
    /\ IF StartRefuses(CurrentTaskOf(prog[t].target))
       THEN panicked' = TRUE /\ pc' = [pc EXCEPT ![t] = "panic"]
       ELSE panicked' = panicked /\ pc' = [pc EXCEPT ![t] = "rs_publish"]
    /\ UNCHANGED <<countvars, framevars, num_tasks, prog, schedvars, scheduler_ptr,
                   syst_enabled, pendsv, main_pc, frame_idx, start, sel,
                   histvars>>

\* start, called by task t: SCHEDULER_PTR.store(self_addr)
RestartPublish(t) ==
    /\ Running(t) /\ pc[t] = "rs_publish"
    /\ scheduler_ptr' = PublishedPointer(prog[t].target)
    /\ pc' = [pc EXCEPT ![t] = "rs_syst"]
    /\ UNCHANGED <<countvars, framevars, num_tasks, prog, schedvars, syst_enabled,
                   pendsv, main_pc, frame_idx, start, sel, panicked,
                   histvars>>

\* the handlers and the facade work on the Scheduler that fn main started
\* for as long as the global pointer names it; what the other Scheduler
\* does once it is published is not followed
FirstVisible == scheduler_ptr \in {NullPtr, FirstScheduler}

InitRestart ==
    /\ \E n \in 1 .. MaxTasks : SchedulerNew(n)
    /\ prog \in [0 .. (num_tasks - 1) ->
                    {BusyProg} \cup {RestartProg(i) : i \in Schedulers}]
    /\ ticks = U32(0, 0)
    /\ StacksNew(num_tasks, "eabi", MinStackSize("eabi") + 4,
                 [t \in 0 .. (num_tasks - 1) |-> U32(0, 257)])

NextRestart ==
    \/ FirstVisible /\ StartCheck
    \/ FirstVisible /\ StartPublish
    \/ FirstVisible /\ StartSysTick
    \/ FirstVisible /\ StartFrame
    \/ FirstVisible /\ StartPend
    \/ FirstVisible /\ SysTick
    \/ FirstVisible /\ PendSV
    \/ \E t \in Tasks : FirstVisible /\ BusyStep(t)
    \/ \E t \in Tasks : FirstVisible /\ RestartCheck(t)
    \/ \E t \in Tasks : FirstVisible /\ RestartPublish(t)

SpecRestart == InitRestart /\ [][NextRestart]_vars

\* ====================================================================
\* The examples: three tasks that loop on a log line and a delay.
\* ====================================================================
\* static TASK_LIST: [Task; 3], each task looping on delay(ks[t])
InitExample(ks) ==
    /\ SchedulerNew(3)
    /\ prog = [t \in 0 .. 2 |-> CountProg(ks[t + 1])]
    /\ ticks = U32(0, 0)
    /\ StacksNew(num_tasks, "eabi", MinStackSize("eabi") + 4,
                 [t \in 0 .. (num_tasks - 1) |-> U32(0, 257)])

\* example4: rabbits, hamsters and cats each call pets::delay(0)
InitExample4 == InitExample(<<0, 0, 0>>)

\* example1: rabbits call pets::delay(5), hamsters delay(10), cats delay(3)
InitExample1 == InitExample(<<5, 10, 3>>)

\* the CPU waits in wfi
Sleeping == current_task \in Tasks /\ pc[current_task] = "y_sleep"

\* SYSTICKS_PER_SCHED_TICK = 100_000 processor cycles between two SysTick
\* exceptions: start and a pass of every task through its loop take far
\* fewer, so the exception finds the CPU waiting in wfi
PeriodicTick(limit) == Sleeping /\ SysTickWithin(limit)

DelayStep(t) ==
    \/ DelayCall(t)
    \/ YieldPark(t)
    \/ YieldPick(t)
    \/ YieldStore(t)
    \/ YieldPend(t)
    \/ YieldWfi(t)
    \/ DelayCheck(t)

NextExample4 ==
    \/ StartCheck
    \/ StartPublish
    \/ StartSysTick
    \/ StartFrame
    \/ StartPend
    \/ PeriodicTick(MaxRounds)
    \/ PendSV
    \/ \E t \in Tasks : DelayStep(t)

SpecExample4 == InitExample4 /\ [][NextExample4]_vars

NextExample1 ==
    \/ StartCheck
    \/ StartPublish
    \/ StartSysTick
    \/ StartFrame
    \/ StartPend
    \/ PeriodicTick(CadenceWindow)
    \/ PendSV
    \/ \E t \in Tasks : DelayStep(t)

SpecExample1 == InitExample1 /\ [][NextExample1]_vars

\* ====================================================================
\* Progress: the exceptions are taken when they are pending and the timer
\* keeps firing; the running task keeps executing.
\* ====================================================================
\* ticks taken in a run in which progress is followed
LiveTicks == MaxTicks + 2

NextLive ==
    \/ StartCheck
    \/ StartPublish
    \/ StartSysTick
    \/ StartFrame
    \/ StartPend
    \/ SysTickWithin(LiveTicks)
    \/ PendSV
    \/ \E t \in Tasks : TaskStep(t)

Fairness ==
    /\ WF_vars(StartCheck \/ StartPublish \/ StartSysTick \/ StartFrame
                  \/ StartPend)
    /\ WF_vars(SysTickWithin(LiveTicks))
    /\ WF_vars(PendSV)
    /\ \A t \in 0 .. (MaxTasks - 1) : WF_vars(TaskStep(t))

SpecLive == Init /\ [][NextLive]_vars /\ Fairness

\* ====================================================================
\* delay across the wrap of the tick counter
\* ====================================================================
\* pets::delay(5)
WrapDelay == 5

\* the tick counter is 2^32 - 1 - d, for d up to 3
NearWrap == {U32(LimbModulus - 1, LimbModulus - 1 - d) : d \in 0 .. 3}

InitWrap ==
    /\ \E n \in 1 .. 2 : SchedulerNew(n)
    /\ prog \in [0 .. (num_tasks - 1) -> {BusyProg, DelayProg(WrapDelay)}]
    /\ prog[0] = DelayProg(WrapDelay)
    /\ ticks \in NearWrap
    /\ StacksNew(num_tasks, "eabi", MinStackSize("eabi") + 4,
                 [t \in 0 .. (num_tasks - 1) |-> U32(0, 257)])

NextWrap ==
    \/ StartCheck
    \/ StartPublish
    \/ StartSysTick
    \/ StartFrame
    \/ StartPend
    \/ SysTickWithin(WrapDelay + 1)
    \/ PendSV
    \/ \E t \in Tasks : TaskStep(t)

SpecWrap == InitWrap /\ [][NextWrap]_vars

\* ====================================================================
\* pick_next_task on its own: called on a Scheduler whose current_task
\* and parked flags are any values they can have.
\* ====================================================================
InitPick ==
    /\ \E n \in 1 .. MaxPick :
          /\ num_tasks = n
          /\ current_task \in {SENTINEL} \cup (0 .. (n - 1))
          /\ next_task \in 0 .. (n - 1)
          /\ parked \in [0 .. (n - 1) -> BOOLEAN]
          /\ pc = [t \in 0 .. (n - 1) |-> "body"]
          /\ start = [t \in 0 .. (n - 1) |-> U32(0, 0)]
          /\ sel = [t \in 0 .. (n - 1) |-> NoSelection]
          /\ call_tick = [t \in 0 .. (n - 1) |-> NoCall]
          /\ switched = [t \in 0 .. (n - 1) |-> FALSE]
          /\ yields = [t \in 0 .. (n - 1) |-> 0]
          /\ cnt = [t \in 0 .. (n - 1) |-> 0]
          /\ wakes = [t \in 0 .. (n - 1) |-> 0]
          /\ idle = [t \in 0 .. (n - 1) |-> NoCall]
          /\ ret = NoReturn
    /\ scheduler_ptr = FirstScheduler
    /\ syst_enabled = TRUE
    /\ pendsv = FALSE
    /\ main_pc = "pick"
    /\ frame_idx = num_tasks
    /\ panicked = FALSE
    /\ tick_count = 0
    /\ tick_from = SENTINEL
    /\ prog = [t \in 0 .. (num_tasks - 1) |-> BusyProg]
    /\ ticks = U32(0, 0)
    /\ StacksNew(num_tasks, "eabi", MinStackSize("eabi") + 4,
                 [t \in 0 .. (num_tasks - 1) |-> U32(0, 257)])

\* let task_sel = self.pick_next_task()
PickCall ==
    /\ main_pc = "pick"
    /\ sel' = [sel EXCEPT ![0] = PickNextTask(current_task, parked, num_tasks)]
    /\ main_pc' = "picked"
    /\ UNCHANGED <<countvars, framevars, num_tasks, prog, schedvars,
                   scheduler_ptr, syst_enabled, pendsv, frame_idx, pc, start,
                   panicked, histvars>>

NextPick == PickCall

SpecPick == InitPick /\ [][NextPick]_vars

\* ====================================================================
\* Turns: the ticks that pass without a task being the current task.
\* ====================================================================
InitTurns ==
    /\ \E n \in 1 .. MaxTasks :
          /\ num_tasks = n
          /\ parked = [t \in 0 .. (n - 1) |-> FALSE]
          /\ pc = [t \in 0 .. (n - 1) |-> "body"]
          /\ start = [t \in 0 .. (n - 1) |-> U32(0, 0)]
          /\ sel = [t \in 0 .. (n - 1) |-> NoSelection]
          /\ call_tick = [t \in 0 .. (n - 1) |-> NoCall]
          /\ switched = [t \in 0 .. (n - 1) |-> FALSE]
          /\ yields = [t \in 0 .. (n - 1) |-> 0]
          /\ cnt = [t \in 0 .. (n - 1) |-> 0]
          /\ wakes = [t \in 0 .. (n - 1) |-> 0]
          /\ idle = [t \in 0 .. (n - 1) |-> 0]
          /\ ret = NoReturn
    /\ current_task = SENTINEL
    /\ next_task = 0
    /\ scheduler_ptr = NullPtr
    /\ syst_enabled = FALSE
    /\ pendsv = FALSE
    /\ main_pc = "s_check"
    /\ frame_idx = 0
    /\ panicked = FALSE
    /\ tick_count = 0
    /\ tick_from = SENTINEL
    /\ prog \in [0 .. (num_tasks - 1) ->
                    {BusyProg, DelayProg(0), DelayProg(1)}]
    /\ ticks = U32(0, 0)
    /\ StacksNew(num_tasks, "eabi", MinStackSize("eabi") + 4,
                 [t \in 0 .. (num_tasks - 1) |-> U32(0, 257)])

NextTurns ==
    \/ StartCheck
    \/ StartPublish
    \/ StartSysTick
    \/ StartFrame
    \/ StartPend
    \/ SysTickWithin(LiveTicks)
    \/ PendSV
    \/ \E t \in Tasks : TaskStep(t)

SpecTurns == InitTurns /\ [][NextTurns]_vars

\* ====================================================================
\* Properties
\* ====================================================================
AllBusy == \A t \in Tasks : prog[t].kind = "busy"

\* the step in which delay returns to the task body
DelayReturns(t) == pc[t] = "d_check" /\ pc'[t] = "body"

\* ticks taken since task t called delay
Elapsed(t) == tick_count - call_tick[t]

\* b is a + 1 modulo 2^32
U32Succ(a, b) ==
    b = IF a.lo = LimbModulus - 1
        THEN IF a.hi = LimbModulus - 1 THEN U32(0, 0) ELSE U32(a.hi + 1, 0)
        ELSE U32(a.hi, a.lo + 1)

\* C1: with N busy tasks that never yield, whenever task code can run after
\* a tick, the running task is the successor modulo N of the task that was
\* running when the tick was taken: one step of the round robin per tick.
C1_RoundRobin ==
    (AllBusy /\ ~pendsv /\ ~panicked /\ tick_count > 0 /\ tick_from # SENTINEL)
        => current_task = (tick_from + 1) % num_tasks

C1_Witness ==
    /\ AllBusy /\ num_tasks = MaxTasks /\ ~pendsv
    /\ tick_count >= num_tasks
    /\ tick_from = num_tasks - 1 /\ current_task = 0

\* C2: delay(k) returns to the task body only after at least k SysTicks
\* have been taken since the call, under every interleaving.
C2_ParkingLaw ==
    [][\A t \in Tasks : DelayReturns(t) => Elapsed(t) >= prog[t].ticks]_vars

\* a delay(MaxDelay) about to return, the counter having wrapped through 0
\* while the task was parked
C2_Witness ==
    \E t \in Tasks :
        /\ pc[t] = "d_check" /\ current_task = t /\ ~pendsv
        /\ prog[t].kind = "delay" /\ prog[t].ticks = MaxDelay
        /\ start[t].hi = LimbModulus - 1 /\ ticks.hi = 0
        /\ Elapsed(t) >= MaxDelay

\* C3: the selection made by yield_until_tick right after parking the
\* current task never answers CurrentTask, so the panic is unreachable.
C3_NeverPicksParked ==
    ~panicked /\ \A t \in Tasks : sel[t].kind # "CurrentTask"

\* C4: delay(0) returns after a PendSV has changed current_task since the
\* call and before N ticks have elapsed since the call.
C4_DelayZero ==
    [][\A t \in Tasks :
          (DelayReturns(t) /\ prog[t].ticks = 0)
              => (switched[t] /\ Elapsed(t) < num_tasks)]_vars

\* C5: delay(0) never repeats its loop: it returns from the first check,
\* having called yield_until_tick exactly once.
C5_DelayZeroYieldsOnce ==
    [][\A t \in Tasks :
          (pc[t] = "d_check" /\ pc'[t] # "d_check" /\ prog[t].ticks = 0)
              => (pc'[t] = "body" /\ yields[t] = 1)]_vars

\* a delay(0) about to make its check after several ticks have passed
C5_Witness ==
    \E t \in Tasks :
        /\ pc[t] = "d_check" /\ current_task = t /\ ~pendsv
        /\ prog[t].kind = "delay" /\ prog[t].ticks = 0
        /\ yields[t] = 1 /\ Elapsed(t) >= 2

\* C6: every SysTick adds exactly 1 modulo 2^32 to the tick counter and no
\* other step changes it.
C6_TickCounter ==
    [][IF tick_count' # tick_count
       THEN U32Succ(ticks, ticks')
       ELSE ticks' = ticks]_vars

\* the counter has wrapped from 2^32 - 1 to 0
C6_Witness ==
    ticks = U32(0, 0) /\ tick_count > 0

\* C7: the first context switch makes task 0 the running task, and it has
\* happened once start has passed its barrier or one tick has been handled.
C7_FirstSwitch ==
    /\ [][(current_task = SENTINEL /\ current_task' # SENTINEL)
            => current_task' = 0]_vars
    /\ []((~pendsv /\ ~panicked /\ (tick_count >= 1 \/ main_pc = "s_isb"))
            => current_task # SENTINEL)

\* the first switch was requested by a SysTick taken while start was
\* still priming task frames
C7_Witness ==
    /\ current_task = 0 /\ tick_count = 1 /\ tick_from = SENTINEL
    /\ main_pc = "abandoned" /\ frame_idx < num_tasks

\* C8: current_task is the sentinel or a valid index, and never goes back
\* to the sentinel.
C8_CurrentTaskRange ==
    /\ [](current_task = SENTINEL \/ current_task \in 0 .. (num_tasks - 1))
    /\ [][current_task # SENTINEL => current_task' # SENTINEL]_vars

C8_Witness ==
    current_task = num_tasks - 1 /\ num_tasks = MaxTasks /\ tick_count >= 1

\* C9: next_task is always a valid index.
C9_NextTaskRange == next_task \in 0 .. (num_tasks - 1)

\* yield_until_tick has just stored the last index into next_task
C9_Witness ==
    \E t \in Tasks :
        /\ pc[t] = "y_pend" /\ current_task = t
        /\ num_tasks = MaxTasks /\ next_task = num_tasks - 1

\* C10: the first resume of any task, under every handler of the source,
\* enters the task with PC = its entry function, xPSR = 1 << 24 and zero in
\* R0..R12 and LR.
C10_InitialFrame ==
    frame_pc = "task" =>
        /\ regs.pc = entry_fn[resumed]
        /\ regs.xpsr = DefaultCpsr
        /\ \A r \in RegNames \ {"pc", "xpsr"} : regs[r] = Zero

\* the words of the frame that start installed for task t, lowest address
\* first
InstalledFrame(t) ==
    [i \in 1 .. ((stack_len - task_stack[t]) \div 4) |->
        stack_mem[t][(task_stack[t] \div 4) + i - 1]]

\* C11: on a build without FPU the frame start installs is 16 words with no
\* EXC_RETURN word in it, and the handler returns with the fixed EXC_RETURN
\* value; only the FPU build has the extra 0xFFFFFFFD word.
C11_NoExcReturnWord ==
    /\ (frame_idx > 0 /\ abi # "eabihf") =>
           /\ Len(InstalledFrame(0)) = 16
           /\ \A i \in DOMAIN InstalledFrame(0) :
                  InstalledFrame(0)[i] # ExcReturnThreadPsp
    /\ (frame_idx > 0 /\ abi = "eabihf") =>
           /\ Len(InstalledFrame(0)) = 17
           /\ InstalledFrame(0)[9] = ExcReturnThreadPsp
    /\ frame_pc = "bx_lr" => regs.lr = ExcReturnThreadPsp

CalleeSaved == {"r4", "r5", "r6", "r7", "r8", "r9", "r10", "r11"}

\* C12: when PendSV is about to return into a task that it suspended
\* earlier, r4-r11 hold the values the task had when it was suspended and lr
\* holds the EXC_RETURN value of that suspension, whatever switches happened
\* in between and whichever handler the build links.
C12_RegisterRoundTrip ==
    (frame_pc = "bx_lr" /\ held[resumed].valid) =>
        /\ \A r \in CalleeSaved : regs[r] = held[resumed].regs[r]
        /\ regs.lr = held[resumed].exc

\* the Armv6-M handler resumes a task while another task is suspended with
\* other values in its registers
C12_Witness ==
    /\ frame_pc = "bx_lr" /\ abi = "eabi_v6" /\ held[resumed].valid
    /\ held[resumed].regs.r8 = U32(MaxPattern, 8)
    /\ \E u \in Tasks :
          /\ u # resumed /\ held[u].valid
          /\ held[u].regs.r8 # held[resumed].regs.r8

C14_StackPointerInBuffer ==
    \A t \in Tasks : task_stack[t] >= 0 /\ task_stack[t] <= stack_len

\* C15: for every accepted LEN, the pointer start stores for a task after
\* building its frame and the PSP with which the task is first entered are
\* multiples of 8 (the Stack buffer itself starts on an 8-byte boundary).
C15_StackAligned ==
    /\ \A t \in Tasks : t < frame_idx => task_stack[t] % 8 = 0
    /\ frame_pc = "task" => psp % 8 = 0

\* C16: the global scheduler pointer is null until start stores it, and
\* once it is not null no step changes it, whichever Scheduler start is
\* called on and wherever from.
C16_PointerSetOnce ==
    /\ [](main_pc \in {"s_check", "s_publish"} => scheduler_ptr = NullPtr)
    /\ [][scheduler_ptr # NullPtr => scheduler_ptr' = scheduler_ptr]_vars

\* task t makes the check of a start call on the Scheduler that runs
RestartChecks(t) ==
    /\ prog[t].kind = "restart" /\ prog[t].target = FirstScheduler
    /\ pc[t] = "body" /\ pc'[t] # "body"

\* C17: a second start on the running Scheduler panics at its check, with
\* the global pointer, the SysTick setup, the scheduler's fields and every
\* task stack as they were.
C17_RestartPanics ==
    [][\A t \in Tasks :
          RestartChecks(t) =>
              /\ panicked' /\ pc'[t] = "panic"
              /\ UNCHANGED <<scheduler_ptr, syst_enabled, schedvars, pendsv,
                             frame_idx, stack_mem, task_stack>>]_vars

\* a task has called start on the running Scheduler and the call panicked
C17_Witness ==
    \E t \in Tasks :
        /\ prog[t].kind = "restart" /\ prog[t].target = FirstScheduler
        /\ pc[t] = "panic" /\ panicked /\ current_task = t
        /\ scheduler_ptr = FirstScheduler /\ tick_count >= 1

\* C18: whenever the SysTick interrupt is enabled the global pointer is
\* not null, so the unwrap in the SysTick handler finds a Scheduler.
C18_SysTickFindsScheduler ==
    syst_enabled => scheduler_ptr # NullPtr

\* a SysTick was handled while start was still priming the task frames
C18_Witness ==
    /\ tick_count >= 1 /\ ~panicked /\ scheduler_ptr = FirstScheduler
    /\ main_pc = "s_frames" /\ pendsv

Abs(x) == IF x < 0 THEN 0 - x ELSE x

CeilDiv(w, k) == (w + (k - 1)) \div k

SingleSleeper ==
    num_tasks = 1 /\ prog[0].kind = "delay" /\ prog[0].ticks >= 1

\* C21: with a single task in delay(k), k >= 1, the selection made after
\* parking answers NoTasks and the task goes to wfi without requesting
\* PendSV; once the task runs no PendSV is requested at all, and the task
\* makes at most one pass of delay's loop per tick, leaving delay only when
\* k ticks have passed.
C21_IdleUntilTick ==
    /\ [](SingleSleeper =>
             /\ sel[0].kind \in {"none", "NoTasks"}
             /\ pc[0] \notin {"y_store", "y_pend", "panic"}
             /\ ~panicked
             /\ call_tick[0] # NoCall => yields[0] <= Elapsed(0) + 1)
    /\ [][(SingleSleeper /\ current_task = 0) => ~pendsv']_vars

\* the tick counter has gone through 0 since task t called delay
Wrapped(t) == start[t].hi = LimbModulus - 1 /\ ticks.hi = 0

DelayCalled(t) == t \in Tasks /\ pc[t] = "y_park" /\ yields[t] = 0

\* the timer has stopped firing: the run has taken all its ticks
TimerStopped == tick_count = LiveTicks

\* C23: every call of delay returns to the task body, unless the timer
\* stops firing first.
C23_DelayReturns ==
    \A t \in 0 .. (MaxTasks - 1) :
        DelayCalled(t) ~> ((t \in Tasks /\ pc[t] = "body") \/ TimerStopped)

\* the distances 1 .. N from cur at which an unparked task sits
OpenDistances(cur, pk, n) == {d \in 1 .. n : ~pk[(cur + d) % n]}

\* the least element of a non-empty set of numbers
Least(S) == CHOOSE d \in S : \A e \in S : d <= e

\* what the selection has to answer
Expected(cur, pk, n) ==
    IF cur = SENTINEL THEN NewTask(0)
    ELSE IF OpenDistances(cur, pk, n) = {} THEN NoTasks
    ELSE IF Least(OpenDistances(cur, pk, n)) = n THEN CurrentTask
    ELSE NewTask((cur + Least(OpenDistances(cur, pk, n))) % n)

C25_TickEffect ==
    [][(tick_count' # tick_count /\ ~panicked') =>
          LET picked == Expected(current_task, parked', num_tasks)
          IN /\ \A t \in Tasks : ~parked'[t]
             /\ picked # NoTasks
             /\ IF picked.kind = "NewTask"
                THEN next_task' = picked.id /\ pendsv'
                ELSE next_task' = next_task /\ ~pendsv'
             /\ (num_tasks = 1 /\ current_task = 0) => ~pendsv']_vars

\* a tick has found the only task parked in its wfi and has pended nothing
C25_Witness ==
    /\ num_tasks = 1 /\ current_task = 0 /\ tick_from = 0 /\ ~pendsv
    /\ pc[0] = "d_check" /\ ~parked[0] /\ yields[0] = 1
    /\ tick_count = call_tick[0] + 1

\* the step is a PendSV, from its entry to the handler's bx lr
PendSVRuns == frame_pc # "bx_lr" /\ frame_pc' = "bx_lr"

C27_NoSwitchBeforePrimed ==
    current_task # SENTINEL => frame_idx = num_tasks

\* C28: when yield_until_tick pends PendSV, next_task names another task
\* that is not parked (the one its selection chose), and no PendSV makes a
\* parked task the current task, whatever SysTicks were taken in between.
C28_YieldSwitch ==
    [][/\ \A t \in Tasks :
            (pc[t] = "y_pend" /\ pc'[t] # "y_pend")
                => (next_task # t /\ ~parked[next_task])
       /\ current_task' # current_task => ~parked[current_task']]_vars

\* C29: wfi is executed only when every task is parked.
C29_SleepOnlyWhenAllParked ==
    [][\A t \in Tasks :
          (pc[t] = "y_wfi" /\ pc'[t] = "y_sleep")
              => \A u \in Tasks : parked[u]]_vars

\* C30: no task goes without being the current task for more than N ticks
\* in a row, whatever mix of busy and delaying tasks runs.
C30_NoStarvation ==
    \A t \in Tasks : idle[t] <= num_tasks

\* a busy task of a full mix has had a turn and has then waited through the
\* ticks of the other tasks for the next one, which the pending PendSV
\* gives it
C30_Witness ==
    /\ num_tasks = MaxTasks /\ pendsv /\ tick_count > num_tasks
    /\ \E t \in Tasks :
          /\ idle[t] = num_tasks - 1 /\ next_task = t
          /\ prog[t].kind = "busy"
          /\ \E u \in Tasks : prog[u].kind = "delay"

\* ====================================================================
\* The facade before the first context switch: now, task_id, delay and
\* Scheduler::yield_until_tick called while current_task is still
\* usize::MAX, by fn main before it calls start or by an exception handler
\* that runs while start does.
\* ====================================================================
MaxCalls == 2

\* TaskId::INVALID_ID
INVALID_ID == SENTINEL

\* TaskId::invalid()
Invalid == INVALID_ID

\* pub fn now(): scheduler.now() if get_scheduler() is Some, otherwise 0
FacadeNow(ptr, tk) == IF ptr = NullPtr THEN U32(0, 0) ELSE tk

\* pub fn task_id(): scheduler.current_task_id() if get_scheduler() is
\* Some, otherwise TaskId::invalid()
FacadeTaskId(ptr, cur) == IF ptr = NullPtr THEN Invalid ELSE cur

IndexUnchecked(i, n) == TRUE

\* the bounds check of &self.task_list[task_id]; usize::MAX is above every
\* length
IndexInBounds(i, n) == i # SENTINEL /\ i < n

\* what a facade call leaves alone when it only loads
loadedvars == <<num_tasks, prog, current_task, next_task, parked, ticks,
                scheduler_ptr, syst_enabled, pendsv, main_pc, frame_idx, pc,
                start, sel, panicked, tick_count, tick_from, call_tick,
                switched, yields, framevars, cnt, wakes, idle>>

BeforeFirstSwitch ==
    /\ ~panicked /\ current_task = SENTINEL
    /\ ret.calls < MaxCalls

Returned(f, tk, id) ==
    [fn |-> f, now |-> tk, id |-> id, calls |-> ret.calls + 1]

EarlyNow ==
    /\ BeforeFirstSwitch
    /\ ret' = Returned("now", FacadeNow(scheduler_ptr, ticks), 0)
    /\ UNCHANGED loadedvars

EarlyTaskId ==
    /\ BeforeFirstSwitch
    /\ ret' = Returned("task_id", U32(0, 0),
                       FacadeTaskId(scheduler_ptr, current_task))
    /\ UNCHANGED loadedvars

\* yield_until_tick as one step: the caller is fn main before any exception
\* is enabled, or an exception handler, which no exception of the same
\* priority interrupts. The index fails before park for every caller that
\* finds current_task at usize::MAX.
YieldUntilTick ==
    LET task_id == current_task
    IN IF ~IndexInBounds(task_id, num_tasks)
       THEN /\ panicked' = TRUE
            /\ UNCHANGED <<parked, next_task, pendsv>>
       ELSE /\ parked' = Park(parked, task_id)
            /\ LET picked == PickNextTask(task_id, parked', num_tasks)
               IN /\ panicked' = (picked.kind = "CurrentTask")
                  /\ IF picked.kind = "NewTask"
                     THEN next_task' = picked.id /\ pendsv' = TRUE
                     ELSE next_task' = next_task /\ pendsv' = pendsv

\* scheduler.yield_until_tick() on the Scheduler that fn main built
EarlyYield ==
    /\ BeforeFirstSwitch
    /\ YieldUntilTick
    /\ ret' = Returned("yield_until_tick", U32(0, 0), 0)
    /\ UNCHANGED <<cnt, wakes, idle, framevars, num_tasks, prog, current_task,
                   ticks, scheduler_ptr, syst_enabled, main_pc, frame_idx,
                   taskvars, histvars>>

\* pub fn delay(): get_scheduler().unwrap(), start = now(), then the loop,
\* which the first yield_until_tick does not get out of
EarlyDelay(k) ==
    /\ BeforeFirstSwitch
    /\ IF scheduler_ptr = NullPtr
       THEN /\ panicked' = TRUE
            /\ UNCHANGED <<parked, next_task, pendsv>>
       ELSE YieldUntilTick
    /\ ret' = Returned("delay", U32(0, 0), 0)
    /\ UNCHANGED <<cnt, wakes, idle, framevars, num_tasks, prog, current_task,
                   ticks, scheduler_ptr, syst_enabled, main_pc, frame_idx,
                   taskvars, histvars>>

\* fn main: SCHEDULER.start(cp.SYST, SYSTICKS_PER_SCHED_TICK)
MainStart ==
    /\ MainRuns /\ main_pc = "main"
    /\ main_pc' = "s_check"
    /\ UNCHANGED <<countvars, framevars, num_tasks, prog, schedvars,
                   scheduler_ptr, syst_enabled, pendsv, frame_idx, taskvars,
                   panicked, histvars>>

\* The steps of the tasks themselves begin with the first context switch
\* and are left to Spec; here the handlers go on ticking and switching.
InitEarly ==
    /\ \E n \in 1 .. MaxTasks :
          /\ num_tasks = n
          /\ parked = [t \in 0 .. (n - 1) |-> FALSE]
          /\ pc = [t \in 0 .. (n - 1) |-> "body"]
          /\ start = [t \in 0 .. (n - 1) |-> U32(0, 0)]
          /\ sel = [t \in 0 .. (n - 1) |-> NoSelection]
          /\ call_tick = [t \in 0 .. (n - 1) |-> NoCall]
          /\ switched = [t \in 0 .. (n - 1) |-> FALSE]
          /\ yields = [t \in 0 .. (n - 1) |-> 0]
          /\ cnt = [t \in 0 .. (n - 1) |-> 0]
          /\ wakes = [t \in 0 .. (n - 1) |-> 0]
          /\ idle = [t \in 0 .. (n - 1) |-> NoCall]
    /\ ret = NoReturn
    /\ current_task = SENTINEL
    /\ next_task = 0
    /\ scheduler_ptr = NullPtr
    /\ syst_enabled = FALSE
    /\ pendsv = FALSE
    /\ main_pc = "main"
    /\ frame_idx = 0
    /\ panicked = FALSE
    /\ tick_count = 0
    /\ tick_from = SENTINEL
    /\ prog \in [0 .. (num_tasks - 1) -> Programs]
    /\ ticks = U32(0, 0)
    /\ StacksNew(num_tasks, "eabi", MinStackSize("eabi") + 4,
                 [t \in 0 .. (num_tasks - 1) |-> U32(0, 257)])

NextEarly ==
    \/ EarlyNow
    \/ EarlyTaskId
    \/ EarlyYield
    \/ \E k \in 0 .. MaxDelay : EarlyDelay(k)
    \/ MainStart
    \/ StartCheck
    \/ StartPublish
    \/ StartSysTick
    \/ StartFrame
    \/ StartPend
    \/ SysTick
    \/ PendSV

SpecEarly == InitEarly /\ [][NextEarly]_vars

Called(f) == ret'.calls # ret.calls /\ ret'.fn = f

\* C31: while fn main has not called start, now returns 0 and task_id the
\* invalid identifier and neither changes anything; a delay or a
\* yield_until_tick called before the first context switch panics and
\* parks no task, requests no switch.
C31_EarlyCalls ==
    [][/\ (main_pc = "main" /\ Called("now"))
            => (ret'.now = U32(0, 0) /\ UNCHANGED loadedvars)
       /\ (main_pc = "main" /\ Called("task_id"))
            => (ret'.id = INVALID_ID /\ UNCHANGED loadedvars)
       /\ (Called("delay") \/ Called("yield_until_tick"))
            => /\ current_task = SENTINEL /\ panicked'
               /\ UNCHANGED <<parked, next_task, pendsv, current_task>>]_vars

\* fn main asked for the time or the task and was answered, then called
\* delay, which stopped at the unwrap of the missing scheduler
C31_Witness ==
    /\ main_pc = "main" /\ scheduler_ptr = NullPtr
    /\ ret.fn = "delay" /\ ret.calls = MaxCalls /\ panicked
    /\ \A t \in Tasks : ~parked[t]

====
